---- MODULE Spec2Model ----
(***************************************************************************)
(* Model of the infinite_chess rules core (src/src/lib.rs): the Board,     *)
(* its piece list, the mutation access raw_board exposes, and the queries  *)
(* piece_at, find_attackers_of, move_sight and attack_sight.               *)
(*                                                                         *)
(* A Location is the pair <<x, y>>; the tuple fields .0 and .1 of the      *)
(* source are the components [1] and [2].  A todo!() of the source is a    *)
(* panic: the call returns no value, which the model writes as Panic.      *)
(***************************************************************************)
EXTENDS Integers, Sequences, FiniteSets

VARIABLES pieces, query, result

vars == <<pieces, query, result>>

----------------------------------------------------------------------------
(* Bounds of the model. *)

\* Largest number of pieces raw_board grows a hand-built board to.
MaxPieces == 2

\* Coordinates of the small board the hand-built positions live on.
Coords == {-1, 0, 1}

\* Coordinates of the 8x8 board Board::new() lays the pieces out on.
StdCoords == -4 .. 3

----------------------------------------------------------------------------
(* Shape, Color, Location, Piece *)

Pawn == "Pawn"
Rook == "Rook"
Knight == "Knight"
Bishop == "Bishop"
Queen == "Queen"
King == "King"

Shape == {Pawn, Rook, Knight, Bishop, Queen, King}

White == "White"
Black == "Black"

Color == {White, Black}

other(color) == IF color = White THEN Black ELSE White

Location(a, b) == <<a, b>>

Piece(color, shape, location) ==
    [color |-> color, shape |-> shape, location |-> location]

\* Filler of the piece field of a value that carries no piece.
NoPiece == [color |-> "None", shape |-> "None", location |-> <<0, 0>>]

----------------------------------------------------------------------------
(* Sight and Option values *)

CannotSee == [kind |-> "CannotSee", piece |-> NoPiece]
SeesEmpty == [kind |-> "SeesEmpty", piece |-> NoPiece]
Sees(piece) == [kind |-> "Sees", piece |-> piece]
IllegalSeesEmpty == [kind |-> "IllegalSeesEmpty", piece |-> NoPiece]
IllegalSees(piece) == [kind |-> "IllegalSees", piece |-> piece]

\* The outcome of a call that ends in todo!(): the thread panics.
Panic == [kind |-> "Panic", piece |-> NoPiece]

Some(piece) == [kind |-> "Some", piece |-> piece]
None == [kind |-> "None", piece |-> NoPiece]

is_legal(sight) == sight.kind \in {"Sees", "SeesEmpty"}

sees(sight) == sight.kind # "CannotSee"

----------------------------------------------------------------------------
(* Board *)

\* The pieces of one color: `for x in -4..3` is a half-open range, so the
\* pawn loop runs over the files -4 .. 2.
new_side(color, base_y, pawn_y) ==
    [k \in 1 .. (3 - (-4)) |-> Piece(color, Pawn, Location(-4 + (k - 1), pawn_y))]
    \o << Piece(color, Rook, Location(-4, base_y)),
          Piece(color, Rook, Location(3, base_y)),
          Piece(color, Knight, Location(-3, base_y)),
          Piece(color, Knight, Location(2, base_y)),
          Piece(color, Bishop, Location(-2, base_y)),
          Piece(color, Bishop, Location(1, base_y)),
          Piece(color, Queen, Location(-1, base_y)),
          Piece(color, King, Location(0, base_y)) >>

new == new_side(White, -4, -3) \o new_side(Black, 3, 2)

new_blank == << >>

\* Linear scan; the first piece at the location wins.
piece_at(board, location) ==
    LET hits == {i \in DOMAIN board : board[i].location = location}
    IN  IF hits = {}
        THEN None
        ELSE Some(board[CHOOSE i \in hits : \A j \in hits : i <= j])

\* todo!()
makes_discovered_attack(board, location, blocking_at) == "panic"

\* todo!()
attack_sight(board, piece, destination, check_legal) == Panic

\* The filter of find_attackers_of applied to the pieces from index k on.
\* color is a Color (Some(color)) or "Any" (None).  attack_sight is called
\* only for a piece that passes the color test (&& short-circuits).
RECURSIVE attackers_from(_, _, _, _, _)
attackers_from(board, k, location, check_legal, color) ==
    IF k > Len(board)
    THEN [kind |-> "Items", items |-> << >>]
    ELSE IF color # "Any" /\ color # board[k].color
    THEN attackers_from(board, k + 1, location, check_legal, color)
    ELSE LET sight == attack_sight(board, board[k], location, check_legal)
             rest == attackers_from(board, k + 1, location, check_legal, color)
         IN  IF sight.kind = "Panic" \/ rest.kind = "Panic"
             THEN [kind |-> "Panic", items |-> << >>]
             ELSE IF is_legal(sight)
             THEN [kind |-> "Items", items |-> <<board[k]>> \o rest.items]
             ELSE rest

\* The sequence find_attackers_of yields when the caller enumerates it.
find_attackers_of(board, location, check_legal, color) ==
    attackers_from(board, 1, location, check_legal, color)

\* find_attackers_of(..).next().is_some(): the filter runs up to the first
\* piece it keeps.  "true", "false" or "panic".
RECURSIVE next_is_some(_, _, _, _, _)
next_is_some(board, k, location, check_legal, color) ==
    IF k > Len(board)
    THEN "false"
    ELSE IF color # "Any" /\ color # board[k].color
    THEN next_is_some(board, k + 1, location, check_legal, color)
    ELSE LET sight == attack_sight(board, board[k], location, check_legal)
         IN  IF sight.kind = "Panic"
             THEN "panic"
             ELSE IF is_legal(sight)
             THEN "true"
             ELSE next_is_some(board, k + 1, location, check_legal, color)

----------------------------------------------------------------------------
(* BoardPiece::move_sight *)

\* block_check! with the far end of the scan included: a piece on the
\* destination counts as a blocker.
block_check_far_end(board, a, v, location, destination) ==
    IF destination[v] > location[v]
    THEN \E i \in DOMAIN board :
            /\ board[i].location[a] = destination[a]
            /\ board[i].location[v] > location[v]
            /\ board[i].location[v] <= destination[v]
    ELSE \E i \in DOMAIN board :
            /\ board[i].location[a] = destination[a]
            /\ board[i].location[v] < location[v]
            /\ board[i].location[v] >= destination[v]

\* block_check!(a, v): TRUE when the macro returns Sight::CannotSee.  a is
\* the axis the line is fixed on, v the axis it runs along (1 = x, 2 = y).
block_check(board, a, v, location, destination) ==
    IF destination[v] > location[v]
    THEN \E i \in DOMAIN board :
            /\ board[i].location[a] = destination[a]
            /\ board[i].location[v] > location[v]
            /\ board[i].location[v] < destination[v]
    ELSE \E i \in DOMAIN board :
            /\ board[i].location[a] = destination[a]
            /\ board[i].location[v] < location[v]
            /\ board[i].location[v] > destination[v]

\* The final match (piece_at_dest, illegal); illegal is "true", "false" or
\* "panic" when its computation did not return.
sight_of(board, destination, illegal) ==
    IF illegal = "panic"
    THEN Panic
    ELSE LET piece_at_dest == piece_at(board, destination)
         IN  CASE piece_at_dest.kind = "Some" /\ illegal = "false" ->
                      Sees(piece_at_dest.piece)
               [] piece_at_dest.kind = "None" /\ illegal = "false" ->
                      SeesEmpty
               [] piece_at_dest.kind = "Some" /\ illegal = "true" ->
                      IllegalSees(piece_at_dest.piece)
               [] piece_at_dest.kind = "None" /\ illegal = "true" ->
                      IllegalSeesEmpty

move_sight(board, piece, destination, check_legal) ==
    LET location == piece.location
        \* || check_legal && self.board.makes_discovered_attack(..)
        discovered ==
            IF check_legal
            THEN makes_discovered_attack(board, location, destination)
            ELSE "false"
    IN  CASE piece.shape = Pawn ->
                IF destination[2] # location[2]
                THEN CannotSee
                ELSE LET is_in_front ==
                             IF piece.color = White
                             THEN destination[2] - location[1] = 1
                             ELSE destination[2] - location[1] = -1
                     IN  IF ~is_in_front
                         THEN CannotSee
                         ELSE sight_of(board, destination, discovered)
          [] piece.shape = Rook ->
                IF location[1] = destination[1]
                THEN IF block_check(board, 1, 2, location, destination)
                     THEN CannotSee
                     ELSE sight_of(board, destination, discovered)
                ELSE IF location[2] = destination[2]
                THEN IF block_check(board, 2, 1, location, destination)
                     THEN CannotSee
                     ELSE sight_of(board, destination, discovered)
                ELSE CannotSee
          [] piece.shape = Knight -> Panic
          [] piece.shape = Bishop -> Panic
          [] piece.shape = Queen -> Panic
          [] piece.shape = King ->
                LET delta_x == destination[1] - location[1]
                    delta_y == destination[2] - location[2]
                IN  IF delta_x # 1 /\ delta_x # -1
                    THEN CannotSee
                    ELSE IF delta_y # 1 /\ delta_y # -1
                    THEN CannotSee
                    ELSE sight_of(board, destination,
                            IF check_legal
                            THEN next_is_some(board, 1, destination, FALSE,
                                              other(piece.color))
                            ELSE "false")

----------------------------------------------------------------------------
(* State machine: a caller that owns one Board, edits it through          *)
(* raw_board and asks one query at a time.                                 *)

NoQuery ==
    [op |-> "none", index |-> 0, location |-> <<0, 0>>,
     check_legal |-> FALSE, color |-> "Any"]

NoResult == [kind |-> "NoResult"]

Squares == Coords \X Coords

StdSquares == StdCoords \X StdCoords

AllPieces == {Piece(c, s, l) : c \in Color, s \in Shape, l \in Squares}

\* raw_board().push(p)
Push(p) ==
    /\ query = NoQuery
    /\ Len(pieces) < MaxPieces
    /\ pieces' = Append(pieces, p)
    /\ UNCHANGED <<query, result>>

\* raw_board().remove(i)
Remove(i) ==
    /\ query = NoQuery
    /\ i \in DOMAIN pieces
    /\ pieces' = [k \in 1 .. (Len(pieces) - 1) |->
                    IF k < i THEN pieces[k] ELSE pieces[k + 1]]
    /\ UNCHANGED <<query, result>>

\* raw_board()[i].location = location
Relocate(i, location) ==
    /\ query = NoQuery
    /\ i \in DOMAIN pieces
    /\ pieces[i].location # location
    /\ pieces' = [pieces EXCEPT ![i].location = location]
    /\ UNCHANGED <<query, result>>

PieceAt(location) ==
    /\ query = NoQuery
    /\ query' = [NoQuery EXCEPT !.op = "piece_at", !.location = location]
    /\ result' = piece_at(pieces, location)
    /\ UNCHANGED pieces

MoveSight(i, destination, check_legal) ==
    /\ query = NoQuery
    /\ i \in DOMAIN pieces
    /\ query' = [NoQuery EXCEPT !.op = "move_sight", !.index = i,
                                !.location = destination,
                                !.check_legal = check_legal]
    /\ result' = move_sight(pieces, pieces[i], destination, check_legal)
    /\ UNCHANGED pieces

AttackSight(i, destination, check_legal) ==
    /\ query = NoQuery
    /\ i \in DOMAIN pieces
    /\ query' = [NoQuery EXCEPT !.op = "attack_sight", !.index = i,
                                !.location = destination,
                                !.check_legal = check_legal]
    /\ result' = attack_sight(pieces, pieces[i], destination, check_legal)
    /\ UNCHANGED pieces

FindAttackersOf(location, check_legal, color) ==
    /\ query = NoQuery
    /\ query' = [NoQuery EXCEPT !.op = "find_attackers_of",
                                !.location = location,
                                !.check_legal = check_legal,
                                !.color = color]
    /\ result' = find_attackers_of(pieces, location, check_legal, color)
    /\ UNCHANGED pieces

\* The caller is done with the value a query returned.  A panic returned
\* nothing: the run ends there.
Drop ==
    /\ query # NoQuery
    /\ result.kind # "Panic"
    /\ query' = NoQuery
    /\ result' = NoResult
    /\ UNCHANGED pieces

Init ==
    /\ pieces = new_blank
    /\ query = NoQuery
    /\ result = NoResult

Next ==
    \/ \E p \in AllPieces : Push(p)
    \/ \E i \in 1 .. MaxPieces : Remove(i)
    \/ \E i \in 1 .. MaxPieces, l \in Squares : Relocate(i, l)
    \/ \E l \in Squares : PieceAt(l)
    \/ \E i \in 1 .. MaxPieces, d \in Squares, c \in BOOLEAN : MoveSight(i, d, c)
    \/ \E i \in 1 .. MaxPieces, d \in Squares, c \in BOOLEAN : AttackSight(i, d, c)
    \/ \E l \in Squares, c \in BOOLEAN, f \in Color \cup {"Any"} :
          FindAttackersOf(l, c, f)
    \/ Drop

Spec == Init /\ [][Next]_vars

----------------------------------------------------------------------------
(* The standard board: the caller starts from Board::new() or from       *)
(* Board::new_blank() and builds the positions of spec.md section 8 on   *)
(* the 8x8 coordinates.                                                   *)

ScenePieces ==
    { Piece(White, Rook, Location(0, -4)),
      Piece(Black, King, Location(0, 3)),
      Piece(White, Pawn, Location(0, -3)) }

InitStd ==
    /\ pieces \in {new, new_blank}
    /\ query = NoQuery
    /\ result = NoResult

NextStd ==
    \/ \E p \in ScenePieces : Push(p)
    \/ \E i \in 1 .. MaxPieces : Len(pieces) <= MaxPieces /\ Remove(i)
    \/ \E l \in StdSquares : PieceAt(l)
    \/ \E i \in 1 .. Len(new), d \in StdSquares, c \in BOOLEAN : MoveSight(i, d, c)
    \/ \E i \in 1 .. Len(new), d \in StdSquares, c \in BOOLEAN : AttackSight(i, d, c)
    \/ \E l \in StdSquares, c \in BOOLEAN, f \in Color \cup {"Any"} :
          FindAttackersOf(l, c, f)
    \/ Drop

SpecStd == InitStd /\ [][NextStd]_vars

----------------------------------------------------------------------------
(* Rook positions: White rooks and Black pawns on a 4x4 board, so that a  *)
(* line has up to two squares between its ends.                           *)

RookCoords == {-1, 0, 1, 2}

RookSquares == RookCoords \X RookCoords

RookScenePieces ==
    {Piece(White, Rook, l) : l \in RookSquares}
        \cup {Piece(Black, Pawn, l) : l \in RookSquares}

NextRook ==
    \/ \E p \in RookScenePieces : Push(p)
    \/ \E i \in 1 .. MaxPieces : Remove(i)
    \/ \E i \in 1 .. MaxPieces, l \in RookSquares : Relocate(i, l)
    \/ \E i \in 1 .. MaxPieces, d \in RookSquares, c \in BOOLEAN : MoveSight(i, d, c)
    \/ Drop

SpecRook == Init /\ [][NextRook]_vars

----------------------------------------------------------------------------
(* Pinned positions: a King, a friendly piece next to it and an opposing  *)
(* Rook, Bishop or Queen behind that piece, all three on one line.        *)

\* The square one step from location in direction dir.
Step(location, dir) == <<location[1] + dir[1], location[2] + dir[2]>>

OrthogonalDirs == {<<1, 0>>, <<-1, 0>>, <<0, 1>>, <<0, -1>>}

DiagonalDirs == {<<1, 1>>, <<1, -1>>, <<-1, 1>>, <<-1, -1>>}

SlidersAlong(dir) ==
    IF dir \in OrthogonalDirs THEN {Rook, Queen} ELSE {Bishop, Queen}

PinnedBoards ==
    { << Piece(c, King, k),
         Piece(c, s, Step(k, dir)),
         Piece(other(c), a, Step(Step(k, dir), dir)) >> :
      c \in Color, s \in Shape \ {King}, k \in Squares,
      dir \in OrthogonalDirs \cup DiagonalDirs, a \in {Rook, Bishop, Queen} }

InitPinned ==
    /\ pieces \in { b \in PinnedBoards :
                      /\ b[3].location \in Squares
                      /\ \E dir \in OrthogonalDirs \cup DiagonalDirs :
                            /\ b[2].location = Step(b[1].location, dir)
                            /\ b[3].location = Step(b[2].location, dir)
                            /\ b[3].shape \in SlidersAlong(dir) }
    /\ query = NoQuery
    /\ result = NoResult

NextPinned ==
    \/ \E i \in 1 .. 3, d \in Squares, c \in BOOLEAN : MoveSight(i, d, c)
    \/ Drop

SpecPinned == InitPinned /\ [][NextPinned]_vars

----------------------------------------------------------------------------
(* Vocabulary of the properties *)

Range(board) == {board[i] : i \in DOMAIN board}

Abs(n) == IF n < 0 THEN -n ELSE n

\* Chebyshev distance of two locations.
Distance(l, m) ==
    IF Abs(l[1] - m[1]) > Abs(l[2] - m[2])
    THEN Abs(l[1] - m[1])
    ELSE Abs(l[2] - m[2])

\* q lies on the file or rank that joins s and d, strictly between them.
IsStrictlyBetween(q, s, d) ==
    \/ /\ s[1] = d[1]
       /\ q[1] = s[1]
       /\ \/ s[2] < q[2] /\ q[2] < d[2]
          \/ d[2] < q[2] /\ q[2] < s[2]
    \/ /\ s[2] = d[2]
       /\ q[2] = s[2]
       /\ \/ s[1] < q[1] /\ q[1] < d[1]
          \/ d[1] < q[1] /\ q[1] < s[1]

IsMoveSight == query.op = "move_sight"

\* The piece the current move_sight or attack_sight query was issued on.
Asked == pieces[query.index]

LegalKinds == {"Sees", "SeesEmpty"}

IllegalKinds == {"IllegalSees", "IllegalSeesEmpty"}

----------------------------------------------------------------------------
(* C1 *)

BackRank(color) == IF color = White THEN -4 ELSE 3

PawnRank(color) == IF color = White THEN -3 ELSE 2

CountOf(board, color, shape) ==
    Cardinality({i \in DOMAIN board :
                    board[i].color = color /\ board[i].shape = shape})

\* C1: the board Board::new() returns holds exactly 32 pieces, 16 of each
\* color, no two of them at the same location; each color has 8 pawns, one
\* on every file -4..3 of its pawn rank, 2 rooks, 2 knights, 2 bishops, a
\* queen at file -1 and a king at file 0 of its back rank.
C1_NewBoardIsStandard ==
    pieces = new =>
        /\ Len(pieces) = 32
        /\ \A c \in Color :
              Cardinality({i \in DOMAIN pieces : pieces[i].color = c}) = 16
        /\ \A i, j \in DOMAIN pieces :
              i # j => pieces[i].location # pieces[j].location
        /\ \A c \in Color :
              /\ CountOf(pieces, c, Pawn) = 8
              /\ \A f \in -4 .. 3 :
                    Piece(c, Pawn, Location(f, PawnRank(c))) \in Range(pieces)
              /\ CountOf(pieces, c, Rook) = 2
              /\ CountOf(pieces, c, Knight) = 2
              /\ CountOf(pieces, c, Bishop) = 2
              /\ CountOf(pieces, c, Queen) = 1
              /\ CountOf(pieces, c, King) = 1
              /\ Piece(c, Queen, Location(-1, BackRank(c))) \in Range(pieces)
              /\ Piece(c, King, Location(0, BackRank(c))) \in Range(pieces)

----------------------------------------------------------------------------
(* C2 *)

Forward(color) == IF color = White THEN 1 ELSE -1

\* C2: for a Pawn at (x, y), move_sight(D, false) is something other than
\* CannotSee exactly when D is on the pawn's file and one rank forward for
\* its color; a White pawn alone at (0,-3) gets SeesEmpty for (0,-2) and
\* CannotSee for (1,-2).
C2_PawnOneStepForward ==
    (IsMoveSight /\ Asked.shape = Pawn /\ ~query.check_legal) =>
        /\ result.kind # "CannotSee" <=>
              /\ query.location[1] = Asked.location[1]
              /\ query.location[2] = Asked.location[2] + Forward(Asked.color)
        /\ pieces = <<Piece(White, Pawn, Location(0, -3))>> =>
              /\ query.location = Location(0, -2) => result = SeesEmpty
              /\ query.location = Location(1, -2) => result = CannotSee

----------------------------------------------------------------------------
(* C3 *)

\* C3: for a King at L, move_sight(D, false) is something other than
\* CannotSee exactly when D is one of the eight neighbours of L.
C3_KingEightNeighbours ==
    (IsMoveSight /\ Asked.shape = King /\ ~query.check_legal) =>
        (result.kind # "CannotSee" <=>
            Distance(Asked.location, query.location) = 1)

----------------------------------------------------------------------------
(* C4 *)

\* What the claim expects of a Rook at s asked about d on this board.
RookSees(board, s, d) ==
    /\ s[1] = d[1] \/ s[2] = d[2]
    /\ ~\E p \in Range(board) : IsStrictlyBetween(p.location, s, d)

RookSightAsClaimed(board, s, d, sight) ==
    IF ~RookSees(board, s, d)
    THEN sight = CannotSee
    ELSE IF \E p \in Range(board) : p.location = d
    THEN /\ sight.kind = "Sees"
         /\ sight.piece \in Range(board)
         /\ sight.piece.location = d
    ELSE sight = SeesEmpty

\* The answer to the current query is the one the claim expects.
RookSightOK ==
    (IsMoveSight /\ Asked.shape = Rook /\ ~query.check_legal) =>
        RookSightAsClaimed(pieces, Asked.location, query.location, result)

\* board without its j-th piece.
Without(board, j) ==
    [k \in 1 .. (Len(board) - 1) |-> IF k < j THEN board[k] ELSE board[k + 1]]

\* A step that appends a piece: for every Rook of the board and every
\* destination, a piece put strictly between them blocks the Rook, and a
\* piece put anywhere else but on the destination changes nothing.
RookAfterInsertion ==
    (/\ Len(pieces') = Len(pieces) + 1
     /\ SubSeq(pieces', 1, Len(pieces)) = pieces)
        => \A i \in DOMAIN pieces, d \in RookSquares :
              pieces[i].shape = Rook =>
                  LET at == pieces'[Len(pieces')].location
                      before == move_sight(pieces, pieces[i], d, FALSE)
                      after == move_sight(pieces', pieces'[i], d, FALSE)
                  IN  IF IsStrictlyBetween(at, pieces[i].location, d)
                      THEN after = CannotSee
                      ELSE at # d => after = before

\* A step that removes a piece: taking away the only piece strictly
\* between a Rook and a destination on its line gives the Rook a legal
\* sight again, and taking away a piece that is neither between them nor on
\* the destination changes nothing.
RookAfterRemoval ==
    \A j \in DOMAIN pieces :
        pieces' = Without(pieces, j) =>
            \A i \in DOMAIN pieces \ {j}, d \in RookSquares :
                pieces[i].shape = Rook =>
                    LET at == pieces[j].location
                        s == pieces[i].location
                        rook == IF i < j THEN pieces'[i] ELSE pieces'[i - 1]
                        before == move_sight(pieces, pieces[i], d, FALSE)
                        after == move_sight(pieces', rook, d, FALSE)
                    IN  IF IsStrictlyBetween(at, s, d)
                        THEN /\ before = CannotSee
                             /\ RookSees(pieces', s, d) => is_legal(after)
                        ELSE at # d => after = before

\* C4: a Rook asked with check_legal = false gets CannotSee when the
\* destination shares neither file nor rank with it or when a piece stands
\* strictly between the two, and Sees(occupant) or SeesEmpty otherwise;
\* inserting a piece strictly between them turns the answer into CannotSee,
\* removing it restores the answer, and pieces off the line, beyond the
\* destination or behind the Rook never change it.
C4_RookLineOfSight ==
    /\ []RookSightOK
    /\ [][RookAfterInsertion /\ RookAfterRemoval]_vars

\* A Rook was asked about a square on its line with a piece in between, and
\* the answer was CannotSee.
C4_Witness ==
    /\ IsMoveSight /\ Asked.shape = Rook /\ ~query.check_legal
    /\ Asked.location[1] = query.location[1] \/ Asked.location[2] = query.location[2]
    /\ \E p \in Range(pieces) :
          IsStrictlyBetween(p.location, Asked.location, query.location)
    /\ result = CannotSee

----------------------------------------------------------------------------
(* C5 *)

\* C5: move_sight and attack_sight of a piece toward its own location never
\* return a legal result (Sees or SeesEmpty), whatever check_legal is.
C5_NeverSeesItself ==
    (/\ query.op \in {"move_sight", "attack_sight"}
     /\ query.location = Asked.location)
        => result.kind \notin LegalKinds

----------------------------------------------------------------------------
(* C6 *)

\* C6: every query returns a value: no call of piece_at, find_attackers_of,
\* move_sight or attack_sight ends in a panic.
C6_QueriesAreTotal ==
    query # NoQuery => result.kind # "Panic"

----------------------------------------------------------------------------
(* C7 *)

\* An opposing Rook has an unblocked line onto the location.
RookAttacks(location, color) ==
    \E j \in DOMAIN pieces :
        /\ pieces[j].color = color
        /\ pieces[j].shape = Rook
        /\ pieces[j].location # location
        /\ is_legal(move_sight(pieces, pieces[j], location, FALSE))

\* C7: a King asked with check_legal = true about a neighbouring square that
\* an opposing piece attacks (here: an opposing Rook with an unblocked line
\* onto it) gets IllegalSees or IllegalSeesEmpty, never a legal Sight.
\* Stated for the neighbours the King arm's geometry test lets through.
C7_KingNotIntoCheck ==
    (/\ IsMoveSight /\ Asked.shape = King /\ query.check_legal
     /\ Abs(query.location[1] - Asked.location[1]) = 1
     /\ Abs(query.location[2] - Asked.location[2]) = 1
     /\ RookAttacks(query.location, other(Asked.color)))
        => result.kind \in IllegalKinds

----------------------------------------------------------------------------
(* C8 *)

\* The board is King, friendly blocker, opposing slider, in this order and
\* on one line (the positions InitPinned builds).
IsPinned ==
    /\ Len(pieces) = 3
    /\ pieces[1].shape = King
    /\ pieces[2].color = pieces[1].color
    /\ pieces[3].color = other(pieces[1].color)
    /\ \E dir \in OrthogonalDirs \cup DiagonalDirs :
          /\ pieces[2].location = Step(pieces[1].location, dir)
          /\ pieces[3].location = Step(pieces[2].location, dir)
          /\ pieces[3].shape \in SlidersAlong(dir)

\* location is on the line through the King and the slider.
OnPinLine(location) ==
    LET k == pieces[1].location
        a == pieces[3].location
    IN  (location[1] - k[1]) * (a[2] - k[2]) = (location[2] - k[2]) * (a[1] - k[1])

\* C8: in a pinned position a geometrically valid move_sight of the blocker
\* to a destination off the pin line is IllegalSees or IllegalSeesEmpty with
\* check_legal = true and Sees or SeesEmpty with check_legal = false; with
\* check_legal = false no move_sight returns an Illegal variant.
C8_DiscoveredAttackIsIllegal ==
    /\ (/\ IsMoveSight /\ IsPinned /\ query.index = 2
        /\ ~OnPinLine(query.location)
        /\ is_legal(move_sight(pieces, pieces[2], query.location, FALSE)))
          => IF query.check_legal
             THEN result.kind \in IllegalKinds
             ELSE result.kind \in LegalKinds
    /\ (IsMoveSight /\ ~query.check_legal) => result.kind \notin IllegalKinds

----------------------------------------------------------------------------
(* C9 *)

\* The pieces the claim expects: those of the filter color whose
\* attack_sight of the location is legal, in storage order.
ExpectedAttackers ==
    LET Keep(p) ==
            /\ query.color = "Any" \/ p.color = query.color
            /\ is_legal(attack_sight(pieces, p, query.location, query.check_legal))
    IN  SelectSeq(pieces, Keep)

\* C9: find_attackers_of yields, in storage order, exactly the pieces of the
\* filter color whose attack_sight of the location is legal; with only a
\* White Rook at (0,-4) and a Black King at (0,3) on the board,
\* find_attackers_of((0,3), false, Some(White)) yields exactly the Rook.
C9_AttackersAreTheLegalSights ==
    query.op = "find_attackers_of" =>
        /\ result.kind = "Items"
        /\ result.items = ExpectedAttackers
        /\ (/\ pieces = << Piece(White, Rook, Location(0, -4)),
                           Piece(Black, King, Location(0, 3)) >>
            /\ query.location = Location(0, 3)
            /\ ~query.check_legal
            /\ query.color = White)
              => result.items = <<Piece(White, Rook, Location(0, -4))>>

----------------------------------------------------------------------------
(* C10 *)

\* C10: no two pieces of the board share a location, whatever the caller
\* inserts, removes or relocates through raw_board; piece_at(loc) returns
\* the one occupant of loc, or none when no piece is there.
C10_OnePiecePerLocation ==
    /\ \A i, j \in DOMAIN pieces :
          i # j => pieces[i].location # pieces[j].location
    /\ query.op = "piece_at" =>
          IF \E p \in Range(pieces) : p.location = query.location
          THEN /\ result.kind = "Some"
               /\ result.piece \in Range(pieces)
               /\ result.piece.location = query.location
          ELSE result = None

====
